---- MODULE Spec2Model ----
(***************************************************************************)
(* Model of pkg/exchanger/exchanger.go: the transport cache                *)
(* (getClonedTransport), the location resolver (ClusterLocation), the      *)
(* per-request handler built by ProxyConnect and the header extraction     *)
(* (getExtraFromHeaders).                                                  *)
(*                                                                         *)
(* Strings that the code inspects byte by byte (header names, request      *)
(* paths, URLs) are sequences of ASCII codes.  Strings the code only       *)
(* passes around (cluster ids, header values) are TLA+ strings.            *)
(***************************************************************************)
EXTENDS Integers, Sequences, FiniteSets, TLC

(***************************************************************************)
(* Bounds                                                                  *)
(***************************************************************************)
\* number of goroutines calling getClonedTransport concurrently (CacheSpec)
NumCallers == 2

Callers == 1..NumCallers

\* the lock is free
NoHolder == 0

\* the cluster ids requests name
ClusterIDs == {"c1", "c2", "c3", "c4", "c5", "c6"}

(***************************************************************************)
(* Pointers.  An object is named by its allocation site: the expression    *)
(* that allocated it, the cluster id it was allocated for and the          *)
(* goroutine that ran the expression.  Two pointers are equal iff they     *)
(* name the same object.                                                   *)
(***************************************************************************)
NilPtr == [at |-> "nil", id |-> "", p |-> 0]

\* &http.Transport{...} of getClonedTransport, run by goroutine p for id
NewAddr(id, p) == [at |-> "new", id |-> id, p |-> p]

\* the object transport.Clone() returns to goroutine p
CloneAddr(p) == [at |-> "clone", id |-> "", p |-> p]

VARIABLES
    cachedTransports,  \* Exchanger.cachedTransports: id -> *http.Transport
    lock,              \* Exchanger.lock: the goroutine holding it, or NoHolder
    heapT,             \* the http.Transport objects, by address
    heapC,             \* the tls.Config objects, by address
    dialerCalls,       \* id -> number of dialerServer.Dialer(id) calls made by the cache
    stores,            \* id -> number of assignments cachedTransports[id] = ...
    everMutated,       \* id -> some caller has mutated a clone it got for id
    caller,            \* the goroutines of CacheSpec: their position and locals
    registry,          \* Exchanger.mcLister: id -> what List returns for the id
    mcSynced,          \* Exchanger.mcSynced(): the informer has synced
    sessions,          \* the ids dialerServer.HasSession reports a session for
    call,              \* the ProxyConnect calls of Spec: their position and locals
    hx,                \* HdrSpec: the request headers served and the outcome
    lx                 \* LocSpec: the arguments of ClusterLocation and the outcome

cacheVars == <<cachedTransports, lock, heapT, heapC, dialerCalls, stores>>
callerVars == <<everMutated, caller>>
pipeVars == <<registry, mcSynced, sessions, call>>
pureVars == <<hx, lx>>
vars == <<cachedTransports, lock, heapT, heapC, dialerCalls, stores,
          everMutated, caller, registry, mcSynced, sessions, call, hx, lx>>

(***************************************************************************)
(* Byte strings: sequences of ASCII codes.                                 *)
(***************************************************************************)
IsUpper(c) == c \in 65..90
IsLower(c) == c \in 97..122
IsDigit(c) == c \in 48..57

\* strings.ToLower, on ASCII
ToLower(s) == [i \in 1..Len(s) |-> IF IsUpper(s[i]) THEN s[i] + 32 ELSE s[i]]

\* strings.HasPrefix
HasPrefix(s, p) == Len(s) >= Len(p) /\ SubSeq(s, 1, Len(p)) = p

\* s[n:]
From(s, n) == SubSeq(s, n + 1, Len(s))

\* ishex and unhex of net/url
IsHex(c) == IsDigit(c) \/ c \in 97..102 \/ c \in 65..70
UnHex(c) == IF IsDigit(c) THEN c - 48
            ELSE IF c \in 97..102 THEN c - 97 + 10
            ELSE c - 65 + 10

\* url.PathUnescape, first pass: every '%' is followed by two hex digits
RECURSIVE EscapesOK(_)
EscapesOK(s) ==
    IF s = <<>> THEN TRUE
    ELSE IF s[1] = 37
      THEN /\ Len(s) >= 3
           /\ IsHex(s[2])
           /\ IsHex(s[3])
           /\ EscapesOK(From(s, 3))
      ELSE EscapesOK(From(s, 1))

\* url.PathUnescape, second pass: %XY becomes the byte 16*X + Y; '+' stays
RECURSIVE Decode(_)
Decode(s) ==
    IF s = <<>> THEN <<>>
    ELSE IF s[1] = 37
      THEN <<16 * UnHex(s[2]) + UnHex(s[3])>> \o Decode(From(s, 3))
      ELSE <<s[1]>> \o Decode(From(s, 1))

\* unescapeExtraKey: the decoded key, or the key as given when it is malformed
unescapeExtraKey(encodedKey) ==
    IF EscapesOK(encodedKey) THEN Decode(encodedKey) ELSE encodedKey

\* validHeaderFieldByte of net/textproto: the token characters of RFC 7230
ValidHeaderFieldByte(c) ==
    \/ IsUpper(c) \/ IsLower(c) \/ IsDigit(c)
    \/ c \in {33, 35, 36, 37, 38, 39, 42, 43, 45, 46, 94, 95, 96, 124, 126}

\* textproto.CanonicalMIMEHeaderKey: a key holding a byte that is no token
\* character is returned unchanged; otherwise the first letter and every
\* letter after a '-' is upper-cased and every other letter lower-cased
CanonicalMIMEHeaderKey(s) ==
    IF \E i \in 1..Len(s) : ~ValidHeaderFieldByte(s[i]) THEN s
    ELSE [i \in 1..Len(s) |->
            IF i = 1 \/ (i > 1 /\ s[i - 1] = 45)
              THEN (IF IsLower(s[i]) THEN s[i] - 32 ELSE s[i])
              ELSE (IF IsUpper(s[i]) THEN s[i] + 32 ELSE s[i])]

\* http.Header.Del
HeaderDel(h, key) ==
    LET k == CanonicalMIMEHeaderKey(key) IN
    [n \in DOMAIN h \ {k} |-> h[n]]

\* http.Header.Set
HeaderSet(h, key, value) ==
    LET k == CanonicalMIMEHeaderKey(key) IN
    [n \in DOMAIN h \cup {k} |-> IF n = k THEN <<value>> ELSE h[n]]

\* the permutations of a finite set, as sequences: the orders in which a
\* range statement may visit the keys of a map
Perms(S) ==
    {f \in [1..Cardinality(S) -> S] : \A i, j \in 1..Cardinality(S) : i # j => f[i] # f[j]}

(***************************************************************************)
(* getExtraFromHeaders(h, headerPrefixes).  ord[i] is the order in which   *)
(* the inner range statement visits the keys of h for the i-th prefix.     *)
(***************************************************************************)
\* A loop body that puts the new values in front of the ones recorded.
ExtraStepPrepend(h, prefix, headerName, ret) ==
    IF ~HasPrefix(ToLower(headerName), ToLower(prefix)) THEN ret
    ELSE LET extraKey == unescapeExtraKey(ToLower(From(headerName, Len(prefix)))) IN
         [k \in DOMAIN ret \cup {extraKey} |->
             IF k = extraKey
               THEN h[headerName] \o (IF k \in DOMAIN ret THEN ret[k] ELSE <<>>)
               ELSE ret[k]]

\* the inner loop body, for prefix and headerName, on the map ret
ExtraStep(h, prefix, headerName, ret) ==
    IF ~HasPrefix(ToLower(headerName), ToLower(prefix)) THEN ret
    ELSE LET extraKey == unescapeExtraKey(ToLower(From(headerName, Len(prefix)))) IN
         [k \in DOMAIN ret \cup {extraKey} |->
             IF k = extraKey
               THEN (IF k \in DOMAIN ret THEN ret[k] ELSE <<>>) \o h[headerName]
               ELSE ret[k]]

RECURSIVE ExtraInner(_, _, _, _, _)
ExtraInner(h, prefix, names, j, ret) ==
    IF j > Len(names) THEN ret
    ELSE ExtraInner(h, prefix, names, j + 1, ExtraStep(h, prefix, names[j], ret))

RECURSIVE ExtraOuter(_, _, _, _, _)
ExtraOuter(h, headerPrefixes, ord, i, ret) ==
    IF i > Len(headerPrefixes) THEN ret
    ELSE ExtraOuter(h, headerPrefixes, ord, i + 1,
                    ExtraInner(h, headerPrefixes[i], ord[i], 1, ret))

getExtraFromHeaders(h, headerPrefixes, ord) ==
    ExtraOuter(h, headerPrefixes, ord, 1, <<>>)

(***************************************************************************)
(* strings.TrimLeft, strings.Split, path.Join and url.Parse, on the        *)
(* request paths and API server URLs that occur (no '%', '?', '#', '@',    *)
(* '[' and no control character in them).                                  *)
(***************************************************************************)
Slash == 47
Colon == 58
Dot == 46

\* strings.TrimLeft(s, "/"): every leading '/' is removed
RECURSIVE TrimLeftSlash(_)
TrimLeftSlash(s) ==
    IF s # <<>> /\ s[1] = Slash THEN TrimLeftSlash(From(s, 1)) ELSE s

\* strings.IndexByte, 1-based; 0 when c does not occur
Index(s, c) ==
    IF \E i \in 1..Len(s) : s[i] = c
      THEN CHOOSE i \in 1..Len(s) : s[i] = c /\ \A j \in 1..(i - 1) : s[j] # c
      ELSE 0

\* strings.LastIndexByte, 1-based; 0 when c does not occur
LastIndex(s, c) ==
    IF \E i \in 1..Len(s) : s[i] = c
      THEN CHOOSE i \in 1..Len(s) : s[i] = c /\ \A j \in (i + 1)..Len(s) : s[j] # c
      ELSE 0

\* strings.Split(s, "/"): the pieces between the slashes; one piece, s
\* itself, when s holds no slash, also when s is empty
RECURSIVE Split(_)
Split(s) ==
    LET i == Index(s, Slash) IN
    IF i = 0 THEN <<s>>
    ELSE <<SubSeq(s, 1, i - 1)>> \o Split(From(s, i))

\* strings.Join(elems, "/")
RECURSIVE JoinSlash(_)
JoinSlash(elems) ==
    IF elems = <<>> THEN <<>>
    ELSE IF Len(elems) = 1 THEN elems[1]
    ELSE elems[1] \o <<Slash>> \o JoinSlash(Tail(elems))

DotDot == <<Dot, Dot>>

\* path.Clean, the pass over the elements of the path: "" and "." are
\* dropped, ".." removes the element before it, is dropped at the root and
\* is kept at the start of a relative path
RECURSIVE CleanElems(_, _, _)
CleanElems(elems, rooted, out) ==
    IF elems = <<>> THEN out
    ELSE LET e == elems[1]
             rest == Tail(elems) IN
         IF e = <<>> \/ e = <<Dot>> THEN CleanElems(rest, rooted, out)
         ELSE IF e = DotDot
           THEN IF out # <<>> /\ out[Len(out)] # DotDot
                  THEN CleanElems(rest, rooted, SubSeq(out, 1, Len(out) - 1))
                ELSE IF rooted THEN CleanElems(rest, rooted, out)
                ELSE CleanElems(rest, rooted, Append(out, e))
         ELSE CleanElems(rest, rooted, Append(out, e))

\* path.Clean
Clean(p) ==
    IF p = <<>> THEN <<Dot>>
    ELSE LET rooted == p[1] = Slash
             kept == CleanElems(Split(p), rooted, <<>>) IN
         IF rooted THEN <<Slash>> \o JoinSlash(kept)
         ELSE IF kept = <<>> THEN <<Dot>>
         ELSE JoinSlash(kept)

\* path.Join: "" when every element is empty, else the elements from the
\* first non-empty one on, joined by '/' and cleaned
RECURSIVE PathJoin(_)
PathJoin(elems) ==
    IF elems = <<>> THEN <<>>
    ELSE IF elems[1] = <<>> THEN PathJoin(Tail(elems))
    ELSE Clean(JoinSlash(elems))

\* getScheme of net/url: at is the place of the ':' that ends the scheme,
\* 0 when the URL has no scheme
RECURSIVE GetScheme(_, _)
GetScheme(rawURL, i) ==
    IF i > Len(rawURL) THEN [err |-> FALSE, at |-> 0]
    ELSE LET c == rawURL[i] IN
         IF IsLower(c) \/ IsUpper(c) THEN GetScheme(rawURL, i + 1)
         ELSE IF IsDigit(c) \/ c \in {43, 45, 46}
           THEN (IF i = 1 THEN [err |-> FALSE, at |-> 0] ELSE GetScheme(rawURL, i + 1))
         ELSE IF c = Colon
           THEN (IF i = 1 THEN [err |-> TRUE, at |-> 0] ELSE [err |-> FALSE, at |-> i])
         ELSE [err |-> FALSE, at |-> 0]

\* validOptionalPort of net/url on the text after the last ':' of the host
ValidPort(port) == \A i \in 1..Len(port) : IsDigit(port[i])

\* url.Parse: the scheme, host and path of rawURL, or an error
UrlParse(rawURL) ==
    LET bad == [ok |-> FALSE, Scheme |-> <<>>, Host |-> <<>>, Path |-> <<>>]
        sch == GetScheme(rawURL, 1)
        scheme == IF sch.at = 0 THEN <<>> ELSE ToLower(SubSeq(rawURL, 1, sch.at - 1))
        rest == From(rawURL, sch.at)
        firstSeg == IF Index(rest, Slash) = 0 THEN rest
                    ELSE SubSeq(rest, 1, Index(rest, Slash) - 1)
        hasAuthority == /\ HasPrefix(rest, <<Slash, Slash>>)
                        /\ (scheme # <<>> \/ ~HasPrefix(rest, <<Slash, Slash, Slash>>))
        afterSlashes == From(rest, 2)
        cut == Index(afterSlashes, Slash)
        authority == IF cut = 0 THEN afterSlashes ELSE SubSeq(afterSlashes, 1, cut - 1)
        pathAfter == IF cut = 0 THEN <<>> ELSE From(afterSlashes, cut - 1)
        lastColon == LastIndex(authority, Colon)
    IN  IF sch.err THEN bad
        ELSE IF ~HasPrefix(rest, <<Slash>>) /\ scheme # <<>>
          THEN [ok |-> TRUE, Scheme |-> scheme, Host |-> <<>>, Path |-> <<>>]
        ELSE IF ~HasPrefix(rest, <<Slash>>) /\ Index(firstSeg, Colon) # 0 THEN bad
        ELSE IF hasAuthority
          THEN IF lastColon # 0 /\ ~ValidPort(From(authority, lastColon)) THEN bad
               ELSE [ok |-> TRUE, Scheme |-> scheme, Host |-> authority,
                     Path |-> pathAfter]
        ELSE [ok |-> TRUE, Scheme |-> scheme, Host |-> <<>>, Path |-> rest]

(***************************************************************************)
(* ClusterLocation                                                         *)
(***************************************************************************)
\* what mcLister.List returns: an error, a nil slice, or a slice of
\* ManagedCluster records (of any length, 0 included)
ListError == [kind |-> "error", items |-> <<>>]
NilList == [kind |-> "nil", items |-> <<>>]
ListOf(items) == [kind |-> "list", items |-> items]

\* the fields of ManagedCluster.Status that ClusterLocation reads
ManagedCluster(apiServerURL, useSocket) ==
    [APIServerURL |-> apiServerURL, UseSocket |-> useSocket]

\* "direct"
DirectSegment == <<100, 105, 114, 101, 99, 116>>

NoLocation == [Scheme |-> <<>>, Host |-> <<>>, Path |-> <<>>]

\* the ways ClusterLocation ends before it returns a location
Failure(status, err, asked) ==
    [status |-> status, err |-> err, location |-> NoLocation,
     needsTransport |-> FALSE, askedSession |-> asked]

\* An explicit-path resolution that takes the host for the scheme.
ExplicitLocationShifted(parts) ==
    [Scheme |-> IF Len(parts) > 1 THEN parts[2] ELSE <<>>,
     Host |-> IF Len(parts) > 1 THEN parts[2] ELSE <<>>,
     Path |-> IF Len(parts) > 2 THEN PathJoin(SubSeq(parts, 3, Len(parts))) ELSE <<>>]

\* location.Scheme = parts[0]; location.Host = parts[1]; location.Path = path.Join(parts[2:]...)
ExplicitLocation(parts) ==
    [Scheme |-> parts[1],
     Host |-> IF Len(parts) > 1 THEN parts[2] ELSE <<>>,
     Path |-> IF Len(parts) > 2 THEN PathJoin(SubSeq(parts, 3, Len(parts))) ELSE <<>>]

\* A short-path resolution that takes the host from the request path.
ShortLocationRequestHost(loc, parts) ==
    [Scheme |-> loc.Scheme,
     Host |-> IF Len(parts) > 1 THEN parts[2] ELSE loc.Host,
     Path |-> PathJoin(<<loc.Path>> \o
                       (IF Len(parts) > 2 THEN SubSeq(parts, 3, Len(parts)) ELSE <<>>))]

\* the short-path branch, once the API server URL has parsed to loc
ShortLocation(loc, parts) ==
    [Scheme |-> loc.Scheme,
     Host |-> loc.Host,
     Path |-> PathJoin(<<loc.Path>> \o
                       (IF Len(parts) > 1 THEN SubSeq(parts, 2, Len(parts)) ELSE <<>>))]

\* A tunnel check that never asks for the session.
TunnelCheckNoSession(mcls, location, hasSession) ==
    [status |-> "ok", err |-> "", location |-> location,
     needsTransport |-> mcls.items[1].UseSocket, askedSession |-> FALSE]

\* A tunnel check that never fetches the tunnel transport.
TunnelCheckNoTransport(mcls, location, hasSession) ==
    IF mcls.items[1].UseSocket /\ ~hasSession
      THEN Failure("error", "BadRequest: agent is disconnected", TRUE)
      ELSE [status |-> "ok", err |-> "", location |-> location,
            needsTransport |-> FALSE, askedSession |-> mcls.items[1].UseSocket]

\* if mcls[0].Status.UseSocket { if !HasSession(id) {...}; transport = getClonedTransport(id) }
TunnelCheck(mcls, location, hasSession) ==
    IF mcls.items[1].UseSocket
      THEN IF ~hasSession
             THEN Failure("error", "BadRequest: agent is disconnected", TRUE)
             ELSE [status |-> "ok", err |-> "", location |-> location,
                   needsTransport |-> TRUE, askedSession |-> TRUE]
      ELSE [status |-> "ok", err |-> "", location |-> location,
            needsTransport |-> FALSE, askedSession |-> FALSE]

\* A resolution that asks for the session before it builds the location.
ResolveLocationSessionFirst(mcls, requestPath, hasSession) ==
    LET reqPath == TrimLeftSlash(requestPath)
        parts == Split(reqPath)
        isShortPath == parts[1] = DirectSegment
    IN  IF mcls.kind = "error" THEN Failure("error", "ServiceUnavailable: list", FALSE)
        ELSE IF mcls.kind = "nil" THEN Failure("error", "BadRequest: no cluster id", FALSE)
        ELSE IF Len(parts) = 0
          THEN Failure("error", "BadRequest: invalid request path", FALSE)
        ELSE IF Len(mcls.items) = 0 THEN Failure("panic", "index out of range", FALSE)
        ELSE IF mcls.items[1].UseSocket /\ ~hasSession
          THEN Failure("error", "BadRequest: agent is disconnected", TRUE)
        ELSE IF isShortPath
          THEN LET apiserverURL == mcls.items[1].APIServerURL
                   loc == UrlParse(apiserverURL) IN
               IF Len(apiserverURL) = 0
                 THEN Failure("error", "ServiceUnavailable: no apiserver url", FALSE)
               ELSE IF ~loc.ok THEN Failure("error", "InternalError: url parse", FALSE)
               ELSE TunnelCheck(mcls, ShortLocation(loc, parts), hasSession)
        ELSE TunnelCheck(mcls, ExplicitLocation(parts), hasSession)

\* ClusterLocation up to the call of getClonedTransport: mcls is what List
\* returned, requestPath is opts.Path, hasSession what HasSession(id) would
\* answer.  status "panic" is the run-time panic of mcls[0] on an empty slice.
ResolveLocation(mcls, requestPath, hasSession) ==
    LET reqPath == TrimLeftSlash(requestPath)
        parts == Split(reqPath)
        isShortPath == parts[1] = DirectSegment
    IN  IF mcls.kind = "error" THEN Failure("error", "ServiceUnavailable: list", FALSE)
        ELSE IF mcls.kind = "nil" THEN Failure("error", "BadRequest: no cluster id", FALSE)
        ELSE IF Len(parts) = 0
          THEN Failure("error", "BadRequest: invalid request path", FALSE)
        ELSE IF Len(mcls.items) = 0 THEN Failure("panic", "index out of range", FALSE)
        ELSE IF isShortPath
          THEN LET apiserverURL == mcls.items[1].APIServerURL
                   loc == UrlParse(apiserverURL) IN
               IF Len(apiserverURL) = 0
                 THEN Failure("error", "ServiceUnavailable: no apiserver url", FALSE)
               ELSE IF ~loc.ok THEN Failure("error", "InternalError: url parse", FALSE)
               ELSE TunnelCheck(mcls, ShortLocation(loc, parts), hasSession)
        ELSE TunnelCheck(mcls, ExplicitLocation(parts), hasSession)

(***************************************************************************)
(* The cluster registry behind mcLister.                                   *)
(***************************************************************************)
\* "https://10.0.0.1:6443"
U_Https ==
    <<104, 116, 116, 112, 115, 58, 47, 47, 49, 48, 46, 48, 46, 48, 46, 49, 58, 54, 52,
      52, 51>>
\* "https://h:6443/k8s/"
U_HttpsPath ==
    <<104, 116, 116, 112, 115, 58, 47, 47, 104, 58, 54, 52, 52, 51, 47, 107, 56, 115, 47>>
\* "h/api"
U_NoScheme == <<104, 47, 97, 112, 105>>
\* "10.0.0.1:6443"
U_HostPort == <<49, 48, 46, 48, 46, 48, 46, 49, 58, 54, 52, 52, 51>>
\* "localhost:6443"
U_Localhost == <<108, 111, 99, 97, 108, 104, 111, 115, 116, 58, 54, 52, 52, 51>>
\* "https://h:x"
U_BadPort == <<104, 116, 116, 112, 115, 58, 47, 47, 104, 58, 120>>

\* A registry with every kind of answer: c1 is tunnel-only, c2 is reached
\* directly, c3 is unknown (nil slice), c4 is unknown (empty slice), c5 has
\* two records, the first tunnel-only and without an API server URL, c6 has
\* an API server URL that does not parse.
FixedRegistry ==
    [id \in ClusterIDs |->
        CASE id = "c1" -> ListOf(<<ManagedCluster(U_Https, TRUE)>>)
          [] id = "c2" -> ListOf(<<ManagedCluster(U_HttpsPath, FALSE)>>)
          [] id = "c3" -> NilList
          [] id = "c4" -> ListOf(<<>>)
          [] id = "c5" -> ListOf(<<ManagedCluster(<<>>, TRUE),
                                   ManagedCluster(U_Https, FALSE)>>)
          [] id = "c6" -> ListOf(<<ManagedCluster(U_BadPort, FALSE)>>)]

\* e.mcLister.List(labels.SelectorFromSet(labels.Set{known.ClusterIDLabel: id}))
List(id) == registry[id]

\* the ids whose first record has Status.UseSocket set: the only ids
\* ClusterLocation passes to getClonedTransport
TunnelIDs ==
    {id \in ClusterIDs : /\ List(id).kind = "list"
                         /\ Len(List(id).items) > 0
                         /\ List(id).items[1].UseSocket}

(***************************************************************************)
(* getClonedTransport                                                      *)
(***************************************************************************)
\* &tls.Config{InsecureSkipVerify: true}
NewTLSConfig == [InsecureSkipVerify |-> TRUE, Certificates |-> <<>>]

\* &http.Transport{TLSClientConfig: cfg, DialContext: dialer, ...}; the dial
\* function dialerServer.Dialer(id) is named by the id it is bound to
NewTransport(cfg, dialer) ==
    [TLSClientConfig |-> cfg,
     DialContext |-> dialer,
     MaxIdleConns |-> 100,
     IdleConnTimeout |-> 90,
     TLSHandshakeTimeout |-> 10,
     ExpectContinueTimeout |-> 1]

\* dialerServer.Dialer(clusterID)
Dialer(id) == id

\* f with f[k] = v, k added to the domain when it is new
Put(f, k, v) == [x \in DOMAIN f \cup {k} |-> IF x = k THEN v ELSE f[x]]

\* f without the key k
Drop(f, k) == [x \in DOMAIN f \ {k} |-> f[x]]

\* A Clone that copies the Transport struct only: the copy shares the
\* original's *tls.Config.
ShallowCloneTransport(hT, hC, src, dst) ==
    [T |-> Put(hT, dst, hT[src]), C |-> hC]

\* (*http.Transport).Clone applied to the object at src, the copy placed at
\* dst: the exported fields are copied and TLSClientConfig is replaced by
\* TLSClientConfig.Clone(), a new tls.Config object with the same fields.
CloneTransport(hT, hC, src, dst) ==
    IF hT[src].TLSClientConfig = NilPtr
      THEN [T |-> Put(hT, dst, hT[src]), C |-> hC]
      ELSE [T |-> Put(hT, dst, [hT[src] EXCEPT !.TLSClientConfig = dst]),
            C |-> Put(hC, dst, hC[hT[src].TLSClientConfig])]

IdleCaller ==
    [pc |-> "idle", clusterID |-> "", transport |-> NilPtr, ret |-> NilPtr,
     mutated |-> FALSE, afterMut |-> FALSE]

\* a goroutine calls getClonedTransport(id)
Call(c) ==
    /\ caller[c].pc = "idle"
    /\ \E id \in TunnelIDs :
         caller' = [caller EXCEPT ![c] = [IdleCaller EXCEPT !.pc = "lock",
                                                           !.clusterID = id]]
    /\ UNCHANGED <<pipeVars, pureVars, cacheVars, everMutated>>

\* A Lock that does not exclude: it succeeds whoever holds the mutex.
LockNoExclusion(c) ==
    /\ caller[c].pc = "lock"
    /\ lock' = c
    /\ caller' = [caller EXCEPT ![c].pc = "lookup"]
    /\ UNCHANGED <<pipeVars, pureVars, cachedTransports, heapT, heapC, dialerCalls, stores, everMutated>>

\* e.lock.Lock()
Lock(c) ==
    /\ caller[c].pc = "lock"
    /\ lock = NoHolder
    /\ lock' = c
    /\ caller' = [caller EXCEPT ![c].pc = "lookup"]
    /\ UNCHANGED <<pipeVars, pureVars, cachedTransports, heapT, heapC, dialerCalls, stores, everMutated>>

\* transport := e.cachedTransports[clusterID]; if transport != nil
Lookup(c) ==
    /\ caller[c].pc = "lookup"
    /\ LET t == cachedTransports[caller[c].clusterID] IN
         caller' = [caller EXCEPT ![c].transport = t,
                                  ![c].pc = IF t # NilPtr THEN "clone" ELSE "create"]
    /\ UNCHANGED <<pipeVars, pureVars, cacheVars, everMutated>>

\* dialer := e.dialerServer.Dialer(clusterID); transport = &http.Transport{...};
\* e.cachedTransports[clusterID] = transport
Create(c) ==
    /\ caller[c].pc = "create"
    /\ LET id == caller[c].clusterID
           a == NewAddr(id, c) IN
         /\ dialerCalls' = [dialerCalls EXCEPT ![id] = @ + 1]
         /\ heapC' = Put(heapC, a, NewTLSConfig)
         /\ heapT' = Put(heapT, a, NewTransport(a, Dialer(id)))
         /\ cachedTransports' = [cachedTransports EXCEPT ![id] = a]
         /\ stores' = [stores EXCEPT ![id] = @ + 1]
         /\ caller' = [caller EXCEPT ![c].transport = a, ![c].pc = "clone"]
    /\ UNCHANGED <<pipeVars, pureVars, lock, everMutated>>

\* return transport.Clone(): the result is evaluated before the deferred
\* Unlock runs
Clone(c) ==
    /\ caller[c].pc = "clone"
    /\ LET h == CloneTransport(heapT, heapC, caller[c].transport, CloneAddr(c)) IN
         /\ heapT' = h.T
         /\ heapC' = h.C
    /\ caller' = [caller EXCEPT ![c].ret = CloneAddr(c),
                                ![c].afterMut = everMutated[caller[c].clusterID],
                                ![c].pc = "unlock"]
    /\ UNCHANGED <<pipeVars, pureVars, cachedTransports, lock, dialerCalls, stores, everMutated>>

\* A return that leaves the mutex locked.
UnlockNoRelease(c) ==
    /\ caller[c].pc = "unlock"
    /\ caller' = [caller EXCEPT ![c].pc = "done"]
    /\ UNCHANGED <<pipeVars, pureVars, cacheVars, everMutated>>

\* defer e.lock.Unlock()
Unlock(c) ==
    /\ caller[c].pc = "unlock"
    /\ lock' = NoHolder
    /\ caller' = [caller EXCEPT ![c].pc = "done"]
    /\ UNCHANGED <<pipeVars, pureVars, cachedTransports, heapT, heapC, dialerCalls, stores, everMutated>>

(***************************************************************************)
(* What a caller may do with the *http.Transport it was given: write any   *)
(* field of it, and any field of the tls.Config it points to.  One write   *)
(* per transport received; a goroutine that calls again may write again.   *)
(***************************************************************************)
Mutations == {"InsecureSkipVerify", "Certificates", "DialContext", "MaxIdleConns",
              "TLSClientConfig"}

Mutate(c) ==
    /\ caller[c].pc = "done"
    /\ ~caller[c].mutated
    /\ LET t == caller[c].ret
           cfg == heapT[t].TLSClientConfig IN
       \E m \in Mutations :
         /\ m \in {"InsecureSkipVerify", "Certificates"} => cfg # NilPtr
         /\ heapC' = CASE m = "InsecureSkipVerify" ->
                            [heapC EXCEPT ![cfg].InsecureSkipVerify = FALSE]
                       [] m = "Certificates" ->
                            [heapC EXCEPT ![cfg].Certificates = <<"CERT">>]
                       [] OTHER -> heapC
         /\ heapT' = CASE m = "DialContext" ->
                            [heapT EXCEPT ![t].DialContext = "direct"]
                       [] m = "MaxIdleConns" ->
                            [heapT EXCEPT ![t].MaxIdleConns = 0]
                       [] m = "TLSClientConfig" ->
                            [heapT EXCEPT ![t].TLSClientConfig = NilPtr]
                       [] OTHER -> heapT
    /\ everMutated' = [everMutated EXCEPT ![caller[c].clusterID] = TRUE]
    /\ caller' = [caller EXCEPT ![c].mutated = TRUE]
    /\ UNCHANGED <<pipeVars, pureVars, cachedTransports, lock, dialerCalls, stores>>

\* the caller drops the transport it was given; the copy is garbage
Discard(c) ==
    /\ caller[c].pc = "done"
    /\ heapT' = Drop(heapT, CloneAddr(c))
    /\ heapC' = Drop(heapC, CloneAddr(c))
    /\ caller' = [caller EXCEPT ![c] = IdleCaller]
    /\ UNCHANGED <<pipeVars, pureVars, cachedTransports, lock, dialerCalls, stores, everMutated>>

\* NewExchanger: cachedTransports: map[string]*http.Transport{}, the lock free
InitCache ==
    /\ cachedTransports = [id \in ClusterIDs |-> NilPtr]
    /\ lock = NoHolder
    /\ heapT = <<>>
    /\ heapC = <<>>
    /\ dialerCalls = [id \in ClusterIDs |-> 0]
    /\ stores = [id \in ClusterIDs |-> 0]

\* the variables of the other specifications, at rest
NoCallers ==
    /\ everMutated = [id \in ClusterIDs |-> FALSE]
    /\ caller = [c \in Callers |-> IdleCaller]

NoCalls ==
    /\ registry = FixedRegistry
    /\ mcSynced = FALSE
    /\ sessions = {}
    /\ call = <<>>

NoHdr == hx = [pc |-> "input"]

NoLoc == lx = [pc |-> "input"]

CacheInit ==
    /\ InitCache
    /\ everMutated = [id \in ClusterIDs |-> FALSE]
    /\ caller = [c \in Callers |-> IdleCaller]
    /\ NoCalls /\ NoHdr /\ NoLoc

CacheNext ==
    \E c \in Callers :
        \/ Call(c)
        \/ Lock(c)
        \/ Lookup(c)
        \/ Create(c)
        \/ Clone(c)
        \/ Unlock(c)
        \/ Mutate(c)
        \/ Discard(c)

CacheSpec == CacheInit /\ [][CacheNext]_vars

(***************************************************************************)
(* What a pointer to a transport stands for: the fields of the object and  *)
(* of the tls.Config it points to.                                         *)
(***************************************************************************)
TransportValue(t) ==
    [DialContext |-> heapT[t].DialContext,
     MaxIdleConns |-> heapT[t].MaxIdleConns,
     IdleConnTimeout |-> heapT[t].IdleConnTimeout,
     TLSHandshakeTimeout |-> heapT[t].TLSHandshakeTimeout,
     ExpectContinueTimeout |-> heapT[t].ExpectContinueTimeout,
     hasTLS |-> heapT[t].TLSClientConfig # NilPtr,
     TLS |-> IF heapT[t].TLSClientConfig = NilPtr
               THEN [InsecureSkipVerify |-> FALSE, Certificates |-> <<>>]
               ELSE heapC[heapT[t].TLSClientConfig]]

\* the transport value the cache is documented to hand out for id
CacheTransportValue(id) ==
    [DialContext |-> id,
     MaxIdleConns |-> 100,
     IdleConnTimeout |-> 90,
     TLSHandshakeTimeout |-> 10,
     ExpectContinueTimeout |-> 1,
     hasTLS |-> TRUE,
     TLS |-> [InsecureSkipVerify |-> TRUE, Certificates |-> <<>>]]

\* the transports getClonedTransport has constructed for id and that exist
ConstructedFor(id) == {a \in DOMAIN heapT : a.at = "new" /\ a.id = id}

\* caller c holds the transport its call returned and has not written to it
HoldsFreshResult(c) == caller[c].pc \in {"unlock", "done"} /\ ~caller[c].mutated

(***************************************************************************)
(* C1: for every cluster id and every interleaving of concurrent           *)
(* getClonedTransport calls, at most one transport is constructed and      *)
(* stored under the id; the tunnel service is asked for a dial function    *)
(* at most once per id, exactly once as soon as an entry exists; and what  *)
(* every call returns is a copy (another object, same fields) of the one   *)
(* stored instance.                                                        *)
(***************************************************************************)
C1_OneTransportPerID ==
    \A id \in ClusterIDs :
        /\ dialerCalls[id] <= 1
        /\ stores[id] = dialerCalls[id]
        /\ Cardinality(ConstructedFor(id)) = stores[id]
        /\ (cachedTransports[id] # NilPtr) <=> (stores[id] = 1)
        /\ cachedTransports[id] # NilPtr => cachedTransports[id] \in ConstructedFor(id)
        /\ \A c \in Callers :
              HoldsFreshResult(c) /\ caller[c].clusterID = id =>
                  /\ cachedTransports[id] # NilPtr
                  /\ caller[c].ret # cachedTransports[id]
                  /\ heapT[caller[c].ret].DialContext
                        = heapT[cachedTransports[id]].DialContext

\* two goroutines have both been given a transport for the same id
C1_Witness ==
    \E a, b \in Callers :
        /\ a # b
        /\ caller[a].pc = "done" /\ caller[b].pc = "done"
        /\ caller[a].clusterID = caller[b].clusterID
        /\ dialerCalls[caller[a].clusterID] = 1

(***************************************************************************)
(* C10: writing to any field of a transport returned by                    *)
(* getClonedTransport, its TLS configuration included, does not change     *)
(* the cached entry: every transport returned for the id afterwards has    *)
(* the value a first call returns, and so has the cached entry itself.     *)
(***************************************************************************)
C10_CloneIsolation ==
    /\ \A id \in ClusterIDs :
          cachedTransports[id] # NilPtr =>
              TransportValue(cachedTransports[id]) = CacheTransportValue(id)
    /\ \A c \in Callers :
          HoldsFreshResult(c) =>
              TransportValue(caller[c].ret) = CacheTransportValue(caller[c].clusterID)

\* a transport was returned for an id after a clone for that id was written to
C10_Witness ==
    \E c \in Callers :
        /\ caller[c].pc = "done"
        /\ ~caller[c].mutated
        /\ caller[c].afterMut
        /\ \E d \in Callers \ {c} :
              /\ caller[d].pc = "done"
              /\ caller[d].mutated
              /\ caller[d].clusterID = caller[c].clusterID
              /\ TransportValue(caller[d].ret) # CacheTransportValue(caller[d].clusterID)

(***************************************************************************)
(* getClonedTransport called by goroutine p while no other goroutine is    *)
(* inside it: Lock, lookup, construction and store on a miss, Clone and    *)
(* the deferred Unlock, in one step.  The result is at CloneAddr(p).       *)
(***************************************************************************)
GetClonedTransport(id, p) ==
    /\ lock = NoHolder
    /\ IF cachedTransports[id] # NilPtr
         THEN LET h == CloneTransport(heapT, heapC, cachedTransports[id], CloneAddr(p)) IN
              /\ heapT' = h.T
              /\ heapC' = h.C
              /\ UNCHANGED <<cachedTransports, dialerCalls, stores>>
         ELSE LET a == NewAddr(id, p)
                  h == CloneTransport(Put(heapT, a, NewTransport(a, Dialer(id))),
                                      Put(heapC, a, NewTLSConfig), a, CloneAddr(p)) IN
              /\ dialerCalls' = [dialerCalls EXCEPT ![id] = @ + 1]
              /\ heapT' = h.T
              /\ heapC' = h.C
              /\ cachedTransports' = [cachedTransports EXCEPT ![id] = a]
              /\ stores' = [stores EXCEPT ![id] = @ + 1]
    /\ UNCHANGED lock

\* an http.RoundTripper: the dynamic type of the interface value and the
\* pointer it holds.  The untyped nil of 'return nil, nil, err':
NilRoundTripper == [dynType |-> "nil", ptr |-> NilPtr]

\* 'return location, transport, nil' with transport a *http.Transport: the
\* conversion to http.RoundTripper keeps the dynamic type, also when the
\* pointer is nil
RoundTripper(ptr) == [dynType |-> "*http.Transport", ptr |-> ptr]

\* the second result of ClusterLocation, out being how the call ended and ptr
\* the value of its local variable transport
ReturnedTransport(out, ptr) ==
    IF out.status = "ok" THEN RoundTripper(ptr) ELSE NilRoundTripper

\* e.dialerServer.HasSession(id)
HasSession(id) == id \in sessions

\* an agent of a tunnel-only cluster opens its session
SessionConnect(id) ==
    /\ id \in TunnelIDs
    /\ id \notin sessions
    /\ sessions' = sessions \cup {id}
    /\ UNCHANGED <<cacheVars, callerVars, registry, mcSynced, call, pureVars>>

\* the session of an agent ends
SessionDisconnect(id) ==
    /\ id \in sessions
    /\ sessions' = sessions \ {id}
    /\ UNCHANGED <<cacheVars, callerVars, registry, mcSynced, call, pureVars>>

(***************************************************************************)
(* LocSpec: ClusterLocation on bounded sets of registry records and        *)
(* request paths, one call at a time.                                      *)
(***************************************************************************)
\* ""
P_Empty == <<>>
\* "/"
P_Slash == <<47>>
\* "//"
P_Slashes == <<47, 47>>
\* "direct"
P_Direct == <<100, 105, 114, 101, 99, 116>>
\* "direct/api/v1/pods"
P_DirectPods ==
    <<100, 105, 114, 101, 99, 116, 47, 97, 112, 105, 47, 118, 49, 47, 112, 111, 100, 115>>
\* "/direct/api"
P_SlashDirectApi == <<47, 100, 105, 114, 101, 99, 116, 47, 97, 112, 105>>
\* "direct/"
P_DirectSlash == <<100, 105, 114, 101, 99, 116, 47>>
\* "https/10.0.0.2:443/foo/bar"
P_Explicit ==
    <<104, 116, 116, 112, 115, 47, 49, 48, 46, 48, 46, 48, 46, 50, 58, 52, 52, 51, 47,
      102, 111, 111, 47, 98, 97, 114>>
\* "https"
P_Scheme == <<104, 116, 116, 112, 115>>
\* "https/h"
P_SchemeHost == <<104, 116, 116, 112, 115, 47, 104>>
\* "/https/h/a//b"
P_DoubleSlash == <<47, 104, 116, 116, 112, 115, 47, 104, 47, 97, 47, 47, 98>>
\* "https/h/a/../b"
P_DotDot == <<104, 116, 116, 112, 115, 47, 104, 47, 97, 47, 46, 46, 47, 98>>
\* "directx/y"
P_Directx == <<100, 105, 114, 101, 99, 116, 120, 47, 121>>
\* "//http/h/"
P_SlashesExplicit == <<47, 47, 104, 116, 116, 112, 47, 104, 47>>

RequestPaths ==
    {P_Empty, P_Slash, P_Slashes, P_Direct, P_DirectPods, P_SlashDirectApi,
     P_DirectSlash, P_Explicit, P_Scheme, P_SchemeHost, P_DoubleSlash, P_DotDot,
     P_Directx, P_SlashesExplicit}

APIServerURLs ==
    {<<>>, U_Https, U_HttpsPath, U_NoScheme, U_HostPort, U_Localhost, U_BadPort}

Records == {ManagedCluster(u, s) : u \in APIServerURLs, s \in BOOLEAN}

\* the answers of List: an error, no match (nil or empty), one match, or two
\* matches of which the first is used
ListAnswers ==
    {ListError, NilList, ListOf(<<>>)}
        \cup {ListOf(<<r>>) : r \in Records}
        \cup {ListOf(<<r, ManagedCluster(U_Https, FALSE)>>) : r \in Records}

\* the ids LocSpec resolves: c1 with any answer, c2 tunnel-only
LocIDs == {"c1", "c2"}

LocRegistries ==
    {[id \in ClusterIDs |->
        IF id = "c1" THEN m
        ELSE IF id = "c2" THEN ListOf(<<ManagedCluster(U_Https, TRUE)>>)
        ELSE NilList] : m \in ListAnswers}

\* the goroutine of LocSpec
LocProc == 1

\* ClusterLocation(id, opts) with opts.Path = requestPath
LocResolve ==
    /\ lx.pc = "input"
    /\ \E id \in LocIDs, requestPath \in RequestPaths :
         \E out \in {ResolveLocation(List(id), requestPath, HasSession(id))} :
         /\ IF out.needsTransport
              THEN GetClonedTransport(id, LocProc)
              ELSE UNCHANGED cacheVars
         /\ lx' = [pc |-> "done", id |-> id, requestPath |-> requestPath,
                   mcls |-> List(id), hadSession |-> HasSession(id), out |-> out,
                   transport |-> IF out.needsTransport THEN CloneAddr(LocProc) ELSE NilPtr,
                   ret |-> ReturnedTransport(out, IF out.needsTransport
                                                    THEN CloneAddr(LocProc) ELSE NilPtr),
                   before |-> [cachedTransports |-> cachedTransports, heapT |-> heapT,
                               heapC |-> heapC, dialerCalls |-> dialerCalls,
                               stores |-> stores]]
    /\ UNCHANGED <<callerVars, pipeVars, hx>>

\* the caller is done with the result
LocReset ==
    /\ lx.pc = "done"
    /\ lx' = [pc |-> "input"]
    /\ heapT' = Drop(heapT, CloneAddr(LocProc))
    /\ heapC' = Drop(heapC, CloneAddr(LocProc))
    /\ UNCHANGED <<cachedTransports, lock, dialerCalls, stores, callerVars, pipeVars, hx>>

LocInit ==
    /\ InitCache /\ NoCallers /\ NoHdr /\ NoLoc
    /\ registry \in LocRegistries
    /\ mcSynced = TRUE
    /\ sessions = {}
    /\ call = <<>>

LocNext ==
    \/ LocResolve
    \/ LocReset
    \/ \E id \in ClusterIDs : SessionConnect(id) \/ SessionDisconnect(id)

LocSpec == LocInit /\ [][LocNext]_vars

\* the first record List returned, when there is one
HasRecord(mcls) == mcls.kind = "list" /\ Len(mcls.items) > 0

\* the call of lx ran with a tunnel-only record and no session for the id
TunnelOnlyNoSession ==
    /\ lx.pc = "done"
    /\ HasRecord(lx.mcls)
    /\ lx.mcls.items[1].UseSocket
    /\ ~lx.hadSession

\* the cache is as it was when the call of lx started
CacheUntouched ==
    /\ cachedTransports = lx.before.cachedTransports
    /\ heapT = lx.before.heapT
    /\ heapC = lx.before.heapC
    /\ dialerCalls = lx.before.dialerCalls
    /\ stores = lx.before.stores

\* the call of lx is in short-path mode and the record's API server URL is
\* empty or does not parse
ShortPathUnresolved ==
    /\ Split(TrimLeftSlash(lx.requestPath))[1] = DirectSegment
    /\ \/ lx.mcls.items[1].APIServerURL = <<>>
       \/ ~UrlParse(lx.mcls.items[1].APIServerURL).ok

(***************************************************************************)
(* C3, as claimed: with a tunnel-only record and no session for the id,    *)
(* ClusterLocation fails with 'agent is disconnected' and leaves the       *)
(* cache unchanged.                                                        *)
(***************************************************************************)
C3_Original ==
    TunnelOnlyNoSession =>
        /\ lx.out.status = "error"
        /\ lx.out.err = "BadRequest: agent is disconnected"
        /\ CacheUntouched

(***************************************************************************)
(* C3, amended: with a tunnel-only record and no session for the id,       *)
(* ClusterLocation fails and leaves the cache unchanged (no transport      *)
(* constructed, no dial function requested, no entry added); the error is  *)
(* 'agent is disconnected' unless the request is in short-path mode and    *)
(* the API server URL is empty (ServiceUnavailable) or does not parse      *)
(* (InternalError), which is found first.                                  *)
(***************************************************************************)
C3_DisconnectedLeavesCache ==
    TunnelOnlyNoSession =>
        /\ lx.out.status = "error"
        /\ ~lx.out.needsTransport
        /\ CacheUntouched
        /\ lx.transport = NilPtr
        /\ IF ShortPathUnresolved
             THEN lx.out.err \in {"ServiceUnavailable: no apiserver url",
                                  "InternalError: url parse"}
             ELSE lx.out.err = "BadRequest: agent is disconnected"

\* a tunnel-only cluster without session was resolved while the cache held
\* no entry for it, and the call failed as disconnected
C3_Witness ==
    /\ TunnelOnlyNoSession
    /\ lx.out.err = "BadRequest: agent is disconnected"
    /\ cachedTransports[lx.id] = NilPtr

(***************************************************************************)
(* C8: whenever ClusterLocation returns without error, the location has a  *)
(* non-empty scheme, for every request path and every API server URL.      *)
(***************************************************************************)
C8_SchemeNonEmpty ==
    lx.pc = "done" /\ lx.out.status = "ok" => lx.out.location.Scheme # <<>>

(***************************************************************************)
(* C9: when List yields no record for the id, as a nil slice or as an      *)
(* empty one, ClusterLocation returns the BadRequest 'no cluster id'       *)
(* error and never indexes the empty slice.                                *)
(***************************************************************************)
C9_NoMatchIsBadRequest ==
    lx.pc = "done" /\ lx.mcls.kind # "error" /\ ~HasRecord(lx.mcls) =>
        /\ lx.out.status = "error"
        /\ lx.out.err = "BadRequest: no cluster id"

\* the call of lx returned a location in explicit-path mode
ExplicitResolved ==
    /\ lx.pc = "done"
    /\ lx.out.status = "ok"
    /\ Split(TrimLeftSlash(lx.requestPath))[1] # DirectSegment

(***************************************************************************)
(* C11: in explicit-path mode the location has scheme = first segment,     *)
(* host = second segment if present, path = the join of the segments from  *)
(* the third on if present; for a record not flagged tunnel-only the       *)
(* transport returned is nil.                                              *)
(***************************************************************************)
C11_ExplicitLocationNilTransport ==
    ExplicitResolved =>
        LET parts == Split(TrimLeftSlash(lx.requestPath)) IN
        /\ lx.out.location.Scheme = parts[1]
        /\ lx.out.location.Host = (IF Len(parts) > 1 THEN parts[2] ELSE <<>>)
        /\ lx.out.location.Path =
              (IF Len(parts) > 2 THEN PathJoin(SubSeq(parts, 3, Len(parts))) ELSE <<>>)
        /\ ~lx.mcls.items[1].UseSocket => lx.ret = NilRoundTripper

\* the call of lx found a record and is in short-path mode
ShortMode ==
    /\ lx.pc = "done"
    /\ HasRecord(lx.mcls)
    /\ Split(TrimLeftSlash(lx.requestPath))[1] = DirectSegment

(***************************************************************************)
(* C12: in short-path mode resolution fails with ServiceUnavailable when   *)
(* the record's API server URL is empty; a location that is resolved has   *)
(* the scheme and host of the API server URL and, as path, the URL's path  *)
(* joined with the request segments after 'direct'.                        *)
(***************************************************************************)
C12_ShortPathFromAPIServerURL ==
    ShortMode =>
        LET apiserverURL == lx.mcls.items[1].APIServerURL
            parts == Split(TrimLeftSlash(lx.requestPath))
            rest == IF Len(parts) > 1 THEN SubSeq(parts, 2, Len(parts)) ELSE <<>>
        IN  /\ apiserverURL = <<>> =>
                  /\ lx.out.status = "error"
                  /\ lx.out.err = "ServiceUnavailable: no apiserver url"
            /\ lx.out.status = "ok" =>
                  /\ apiserverURL # <<>>
                  /\ lx.out.location.Scheme = UrlParse(apiserverURL).Scheme
                  /\ lx.out.location.Host = UrlParse(apiserverURL).Host
                  /\ lx.out.location.Path =
                        PathJoin(<<UrlParse(apiserverURL).Path>> \o rest)

\* a 'direct/...' request with further segments resolved against an API
\* server URL that has a path of its own
C12_Witness ==
    /\ ShortMode
    /\ lx.out.status = "ok"
    /\ Len(Split(TrimLeftSlash(lx.requestPath))) > 2
    /\ UrlParse(lx.mcls.items[1].APIServerURL).Path # <<>>
    /\ lx.out.location.Host # <<>>

(***************************************************************************)
(* The handler ProxyConnect returns, on the request headers.               *)
(***************************************************************************)
\* strings.ToLower(TokenHeaderKey): "clusternet-token"
TokenKey == <<99, 108, 117, 115, 116, 101, 114, 110, 101, 116, 45, 116, 111, 107, 101, 110>>

\* strings.ToLower(CertificateHeaderKey): "clusternet-certificate"
CertificateKey ==
    <<99, 108, 117, 115, 116, 101, 114, 110, 101, 116, 45,
      99, 101, 114, 116, 105, 102, 105, 99, 97, 116, 101>>

\* strings.ToLower(PrivateKeyHeaderKey): "clusternet-privatekey"
PrivateKeyKey ==
    <<99, 108, 117, 115, 116, 101, 114, 110, 101, 116, 45,
      112, 114, 105, 118, 97, 116, 101, 107, 101, 121>>

\* "Authorization"
Authorization == <<65, 117, 116, 104, 111, 114, 105, 122, 97, 116, 105, 111, 110>>

\* base64.StdEncoding.DecodeString on the header values that occur: the
\* decoded bytes, or an error for text that is no base64
Base64Decode(v) ==
    CASE v = "Q0VSVA==" -> [ok |-> TRUE, bytes |-> "CERT"]
      [] v = "S0VZ"     -> [ok |-> TRUE, bytes |-> "KEY"]
      [] v = "SlVOSw==" -> [ok |-> TRUE, bytes |-> "JUNK"]
      [] v = ""         -> [ok |-> TRUE, bytes |-> ""]
      [] OTHER          -> [ok |-> FALSE, bytes |-> ""]

\* tls.X509KeyPair: CERT and KEY are the PEM blocks of a matching pair
X509KeyPair(certPEMBlock, keyPEMBlock) ==
    IF certPEMBlock = "CERT" /\ keyPEMBlock = "KEY"
      THEN [ok |-> TRUE, cert |-> "CERT+KEY"]
      ELSE [ok |-> FALSE, cert |-> ""]

\* extra[key] of a Go map: the nil slice when the key is absent
ExtraAt(extra, key) == IF key \in DOMAIN extra THEN extra[key] ELSE <<>>

\* token, ok := extra[...]; ok && len(token) > 0
TokenPresent(extra) == TokenKey \in DOMAIN extra /\ Len(extra[TokenKey]) > 0

\* for k := range extra { for _, prefix := range extraHeaderPrefixes {
\*     request.Header.Del(prefix + k) } }
DelExtras(h, extra, extraHeaderPrefixes) ==
    LET gone == {CanonicalMIMEHeaderKey(extraHeaderPrefixes[i] \o k) :
                    k \in DOMAIN extra, i \in 1..Len(extraHeaderPrefixes)} IN
    [n \in DOMAIN h \ gone |-> h[n]]

\* An error path of the handler that reports the error and goes on.
StopNoReturn(e, header, extra) ==
    [error |-> e, serve |-> TRUE, header |-> header, cert |-> "", extra |-> extra]

\* responder.Error(apierrors.NewBadRequest(...)); return
Stop(e, header, extra) ==
    [error |-> e, serve |-> FALSE, header |-> header, cert |-> "", extra |-> extra]

\* The body of the handler up to the proxy execution.  The result says what
\* was reported to the responder (error), whether the proxy handler's
\* ServeHTTP is reached (serve), the request headers at that point (header)
\* and the certificate of the transport built from the headers (cert, ""
\* when the captured transport is left as it is).
HandlerOutcome(h, extraHeaderPrefixes, ord) ==
    LET extra == getExtraFromHeaders(h, extraHeaderPrefixes, ord)
        h1 == IF TokenPresent(extra)
                THEN HeaderSet(h, Authorization, "Bearer " \o extra[TokenKey][1])
                ELSE h
        publicCertificate == ExtraAt(extra, CertificateKey)
        privateKey == ExtraAt(extra, PrivateKeyKey)
        stop(e) == Stop(e, h1, extra)
    IN  IF Len(publicCertificate) > 0 /\ Len(privateKey) > 0
          THEN LET c == Base64Decode(publicCertificate[1])
                   k == Base64Decode(privateKey[1])
                   pair == X509KeyPair(c.bytes, k.bytes)
               IN  IF ~c.ok THEN stop("BadRequest: invalid certificate in header")
                   ELSE IF ~k.ok THEN stop("BadRequest: invalid private key in header")
                   ELSE IF ~pair.ok THEN stop("BadRequest: invalid key pair in header")
                   ELSE [error |-> "", serve |-> TRUE,
                         header |-> DelExtras(h1, extra, extraHeaderPrefixes),
                         cert |-> pair.cert, extra |-> extra]
          ELSE [error |-> "", serve |-> TRUE,
                header |-> DelExtras(h1, extra, extraHeaderPrefixes),
                cert |-> "", extra |-> extra]

(***************************************************************************)
(* HdrSpec: the handler on bounded sets of request headers and prefixes.   *)
(***************************************************************************)
\* the most headers a request carries
MaxHeaders == 2

\* "X-Extra-" and "X-"
PrefixExtra == <<88, 45, 69, 120, 116, 114, 97, 45>>
PrefixX == <<88, 45>>

PrefixLists ==
    {<<>>, <<PrefixExtra>>, <<PrefixX>>, <<PrefixExtra, PrefixX>>, <<PrefixX, PrefixExtra>>}

\* header names as the HTTP server stores them (canonical form)
H_ExtraFoo == <<88, 45, 69, 120, 116, 114, 97, 45, 70, 111, 111>>            \* X-Extra-Foo
H_Foo == <<88, 45, 70, 111, 111>>                                           \* X-Foo
H_ExtraPct46oo == <<88, 45, 69, 120, 116, 114, 97, 45, 37, 52, 54, 111, 111>> \* X-Extra-%46oo
H_ExtraPct66oo == <<88, 45, 69, 120, 116, 114, 97, 45, 37, 54, 54, 111, 111>> \* X-Extra-%66oo
H_ExtraAPct2fb == <<88, 45, 69, 120, 116, 114, 97, 45, 65, 37, 50, 102, 98>>  \* X-Extra-A%2fb
H_ExtraPctzz == <<88, 45, 69, 120, 116, 114, 97, 45, 37, 122, 122>>          \* X-Extra-%zz
\* X-Extra-Clusternet-Token
H_Token ==
    <<88, 45, 69, 120, 116, 114, 97, 45, 67, 108, 117, 115, 116, 101, 114, 110, 101,
      116, 45, 84, 111, 107, 101, 110>>
\* X-Extra-Clusternet-Certificate
H_Certificate ==
    <<88, 45, 69, 120, 116, 114, 97, 45, 67, 108, 117, 115, 116, 101, 114, 110, 101,
      116, 45, 67, 101, 114, 116, 105, 102, 105, 99, 97, 116, 101>>
\* X-Extra-Clusternet-Privatekey
H_PrivateKey ==
    <<88, 45, 69, 120, 116, 114, 97, 45, 67, 108, 117, 115, 116, 101, 114, 110, 101,
      116, 45, 80, 114, 105, 118, 97, 116, 101, 107, 101, 121>>

HeaderNames ==
    {H_ExtraFoo, H_Foo, H_ExtraPct46oo, H_ExtraPct66oo, H_ExtraAPct2fb, H_ExtraPctzz,
     H_Token, H_Certificate, H_PrivateKey, Authorization}

\* the value lists a header of the given name may carry
HeaderChoices(n) ==
    CASE n = H_ExtraFoo -> {<<"a", "b">>}
      [] n = H_Foo -> {<<"c">>}
      [] n = H_ExtraPct46oo -> {<<"d">>}
      [] n = H_ExtraPct66oo -> {<<"e">>}
      [] n = H_ExtraAPct2fb -> {<<"f">>}
      [] n = H_ExtraPctzz -> {<<"g">>}
      [] n = H_Token -> {<<"">>, <<"tok">>}
      [] n = H_Certificate -> {<<"!">>, <<"Q0VSVA==">>, <<"SlVOSw==">>}
      [] n = H_PrivateKey -> {<<"!">>, <<"S0VZ">>}
      [] n = Authorization -> {<<"Basic x">>}

HeaderValueLists == UNION {HeaderChoices(n) : n \in HeaderNames}

\* request.Header: canonical names, each with a non-empty list of values
HeaderMaps ==
    {h \in UNION {[D -> HeaderValueLists] :
                    D \in {E \in SUBSET HeaderNames : Cardinality(E) <= MaxHeaders}} :
        \A n \in DOMAIN h : h[n] \in HeaderChoices(n)}

\* one visiting order of the keys of h per prefix
RangeOrders(h, extraHeaderPrefixes) ==
    [1..Len(extraHeaderPrefixes) -> Perms(DOMAIN h)]

\* the handler serves a request with headers h under the prefixes given
HdrServe ==
    /\ hx.pc = "input"
    /\ \E h \in HeaderMaps, prefixes \in PrefixLists :
         \E ord \in RangeOrders(h, prefixes) :
           hx' = [pc |-> "served", h |-> h, prefixes |-> prefixes,
                  out |-> HandlerOutcome(h, prefixes, ord)]
    /\ UNCHANGED <<cacheVars, callerVars, pipeVars, lx>>

\* the next request
HdrReset ==
    /\ hx.pc = "served"
    /\ hx' = [pc |-> "input"]
    /\ UNCHANGED <<cacheVars, callerVars, pipeVars, lx>>

HdrInit == InitCache /\ NoCallers /\ NoCalls /\ NoHdr /\ NoLoc

HdrNext == HdrServe \/ HdrReset

HdrSpec == HdrInit /\ [][HdrNext]_vars

\* header name n starts, case-insensitively, with a configured prefix
MatchesPrefix(n, extraHeaderPrefixes) ==
    \E i \in 1..Len(extraHeaderPrefixes) :
        HasPrefix(ToLower(n), ToLower(extraHeaderPrefixes[i]))

(***************************************************************************)
(* C6: for every set of inbound headers and every list of configured       *)
(* prefixes, the headers that reach the proxy handler hold no header       *)
(* whose name starts, case-insensitively, with a configured prefix.        *)
(***************************************************************************)
C6_NoExtraHeaderForwarded ==
    hx.pc = "served" /\ hx.out.serve =>
        \A n \in DOMAIN hx.out.header : ~MatchesPrefix(n, hx.prefixes)

(***************************************************************************)
(* C7: the outgoing Authorization header is 'Bearer <value>' exactly when  *)
(* the extra key clusternet-token exists and its first value is a          *)
(* non-empty string; otherwise the inbound Authorization header, present   *)
(* or not, is forwarded unchanged.                                         *)
(***************************************************************************)
C7_BearerIffNonEmptyToken ==
    hx.pc = "served" /\ hx.out.serve =>
        LET token == ExtraAt(hx.out.extra, TokenKey) IN
        IF Len(token) > 0 /\ token[1] # ""
          THEN /\ Authorization \in DOMAIN hx.out.header
               /\ hx.out.header[Authorization] = <<"Bearer " \o token[1]>>
          ELSE /\ (Authorization \in DOMAIN hx.out.header) <=> (Authorization \in DOMAIN hx.h)
               /\ Authorization \in DOMAIN hx.h =>
                    hx.out.header[Authorization] = hx.h[Authorization]

(***************************************************************************)
(* Spec: ProxyConnect calls running concurrently, each followed by the     *)
(* requests its handler serves.                                            *)
(***************************************************************************)
\* number of ProxyConnect calls in flight at once; a call that is over makes
\* room for the next
NumCalls == 1

\* number of requests served by the handler one ProxyConnect call returned
MaxServes == 2

Calls == 1..NumCalls

\* &http.Transport{...} of the handler, run for the call r
CertAddr(r) == [at |-> "cert", id |-> "", p |-> r]

\* the request paths, prefixes and headers of Spec
CallPaths == {P_DirectPods, P_Explicit}

CallPrefixes == <<PrefixExtra>>

\* no extra header, a token, or a certificate with a private key
CallHeaders ==
    {<<>>, H_Token :> <<"tok">>}
        \cup {(H_Certificate :> c) @@ (H_PrivateKey :> k) :
                 c \in HeaderChoices(H_Certificate), k \in HeaderChoices(H_PrivateKey)}

\* what the handler does on each of these headers, for each order in which
\* getExtraFromHeaders may visit them
HandlerOutcomes ==
    UNION {{HandlerOutcome(h, CallPrefixes, ord) : ord \in RangeOrders(h, CallPrefixes)} :
              h \in CallHeaders}

\* of each outcome, what the call keeps: the error reported, whether ServeHTTP
\* ran and the certificate of the transport built
CallOutcomes ==
    {[error |-> o.error, serve |-> o.serve, cert |-> o.cert] : o \in HandlerOutcomes}

\* request.URL.RawQuery of the requests served
Queries == {"", "watch=true"}

NoServe ==
    [error |-> "", executed |-> FALSE, transport |-> NilPtr, query |-> "",
     ownCert |-> FALSE]

IdleCall ==
    [pc |-> "idle", id |-> "", requestPath |-> <<>>, ctxDone |-> FALSE,
     canceledUnsynced |-> FALSE, err |-> "", resolverCalled |-> FALSE,
     useSocket |-> FALSE, location |-> NoLocation, rawQuery |-> "",
     transport |-> NilPtr, served |-> 0, last |-> NoServe]

\* ProxyConnect(ctx, id, opts, responder, extraHeaderPrefixes) is called
ProxyConnect(r) ==
    /\ call[r].pc = "idle"
    /\ \E id \in ClusterIDs, requestPath \in CallPaths :
         call' = [call EXCEPT ![r] = [IdleCall EXCEPT !.pc = "wait", !.id = id,
                                                     !.requestPath = requestPath]]
    /\ UNCHANGED <<cacheVars, callerVars, registry, mcSynced, sessions, pureVars>>

\* the request's context is canceled while ProxyConnect waits;
\* canceledUnsynced records, until the wait is over and ClusterLocation has
\* run, that the informer had not synced by then
CtxCancel(r) ==
    /\ call[r].pc \in {"wait", "poll"}
    /\ ~call[r].ctxDone
    /\ call' = [call EXCEPT ![r].ctxDone = TRUE,
                            ![r].canceledUnsynced = ~mcSynced]
    /\ UNCHANGED <<cacheVars, callerVars, registry, mcSynced, sessions, pureVars>>

\* the informer of ManagedCluster completes its initial synchronization
InformerSync ==
    /\ ~mcSynced
    /\ mcSynced' = TRUE
    /\ UNCHANGED <<cacheVars, callerVars, registry, sessions, call, pureVars>>

\* err := NewServiceUnavailable(...); responder.Error(err); return nil, err
NotReady(c) ==
    [c EXCEPT !.pc = "failed",
              !.err = "ServiceUnavailable: cache for ManagedCluster is not ready"]

\* A wait that does not look at mcSynced.
WaitCheckNoSync(r) ==
    /\ call[r].pc = "wait"
    /\ call' = [call EXCEPT ![r].pc = "resolve"]
    /\ UNCHANGED <<cacheVars, callerVars, registry, mcSynced, sessions, pureVars>>

\* cache.WaitForCacheSync(ctx.Done(), e.mcSynced), the immediate check: done
\* when the informer has synced, given up when the context is already
\* canceled, else polling starts
WaitCheck(r) ==
    /\ call[r].pc = "wait"
    /\ call' = [call EXCEPT ![r] =
                  IF mcSynced THEN [@ EXCEPT !.pc = "resolve"]
                  ELSE IF @.ctxDone THEN NotReady(@)
                  ELSE [@ EXCEPT !.pc = "poll"]]
    /\ UNCHANGED <<cacheVars, callerVars, registry, mcSynced, sessions, pureVars>>

\* cache.WaitForCacheSync, a poll that finds the informer synced
PollSynced(r) ==
    /\ call[r].pc = "poll"
    /\ mcSynced
    /\ call' = [call EXCEPT ![r].pc = "resolve"]
    /\ UNCHANGED <<cacheVars, callerVars, registry, mcSynced, sessions, pureVars>>

\* cache.WaitForCacheSync, the stop channel ctx.Done() is closed: the wait
\* ends without the sync and ProxyConnect fails
PollStopped(r) ==
    /\ call[r].pc = "poll"
    /\ call[r].ctxDone
    /\ call' = [call EXCEPT ![r] = NotReady(@)]
    /\ UNCHANGED <<cacheVars, callerVars, registry, mcSynced, sessions, pureVars>>

\* location, transport, err := e.ClusterLocation(id, opts), and the return
\* of the handler or of the error
ClusterLocation(r) ==
    /\ call[r].pc = "resolve"
    /\ \E id \in {call[r].id} :
       \E out \in {ResolveLocation(List(id), call[r].requestPath, HasSession(id))} :
         /\ IF out.needsTransport
              THEN GetClonedTransport(id, r)
              ELSE UNCHANGED cacheVars
         /\ call' = [call EXCEPT ![r] =
                [@ EXCEPT !.pc = CASE out.status = "ok" -> "ready"
                                   [] out.status = "error" -> "failed"
                                   [] out.status = "panic" -> "panicked",
                          !.err = out.err,
                          !.resolverCalled = TRUE,
                          !.canceledUnsynced = FALSE,
                          !.useSocket = out.status = "ok" /\ List(id).items[1].UseSocket,
                          !.location = out.location,
                          !.transport = IF out.needsTransport THEN CloneAddr(r)
                                        ELSE NilPtr]]
    /\ UNCHANGED <<callerVars, registry, mcSynced, sessions, pureVars>>

\* A handler that stores the transport it builds in the cache.
ServeStoresCert(r) ==
    /\ call[r].pc = "ready"
    /\ call[r].served < MaxServes
    /\ \E out \in CallOutcomes, q \in Queries :
           LET a == CertAddr(r)
               t == IF out.cert # "" THEN a ELSE call[r].transport IN
           /\ IF out.cert # ""
                THEN /\ heapC' = Put(heapC, a, [InsecureSkipVerify |-> TRUE,
                                               Certificates |-> <<out.cert>>])
                     /\ heapT' = Put(heapT, a, NewTransport(a, Dialer(call[r].id)))
                     /\ cachedTransports' = [cachedTransports EXCEPT ![call[r].id] = a]
                ELSE UNCHANGED <<heapT, heapC, cachedTransports>>
           /\ call' = [call EXCEPT ![r].rawQuery = q,
                                   ![r].transport = t,
                                   ![r].served = @ + 1,
                                   ![r].last = [error |-> out.error,
                                                executed |-> out.serve,
                                                transport |-> IF out.serve THEN t
                                                              ELSE NilPtr,
                                                query |-> q,
                                                ownCert |-> out.cert # ""]]
    /\ UNCHANGED <<lock, dialerCalls, stores, callerVars, registry,
                   mcSynced, sessions, pureVars>>

\* the handler serves one request with query q and headers h: the request's
\* query is written to the captured location, the captured transport is
\* replaced when the headers carry a certificate and key, and
\* newThrottledUpgradeAwareProxyHandler(location, transport, ...).ServeHTTP
\* runs unless an error was reported
Serve(r) ==
    /\ call[r].pc = "ready"
    /\ call[r].served < MaxServes
    /\ \E out \in CallOutcomes, q \in Queries :
           LET a == CertAddr(r)
               t == IF out.cert # "" THEN a ELSE call[r].transport IN
           /\ IF out.cert # ""
                THEN /\ heapC' = Put(heapC, a, [InsecureSkipVerify |-> TRUE,
                                               Certificates |-> <<out.cert>>])
                     /\ heapT' = Put(heapT, a, NewTransport(a, Dialer(call[r].id)))
                ELSE UNCHANGED <<heapT, heapC>>
           /\ call' = [call EXCEPT ![r].rawQuery = q,
                                   ![r].transport = t,
                                   ![r].served = @ + 1,
                                   ![r].last = [error |-> out.error,
                                                executed |-> out.serve,
                                                transport |-> IF out.serve THEN t
                                                              ELSE NilPtr,
                                                query |-> q,
                                                ownCert |-> out.cert # ""]]
    /\ UNCHANGED <<cachedTransports, lock, dialerCalls, stores, callerVars, registry,
                   mcSynced, sessions, pureVars>>

\* the call and the requests of its handler are over; what they allocated
\* and the cache does not hold is garbage
Finish(r) ==
    /\ call[r].pc \in {"failed", "panicked", "ready"}
    /\ call[r].pc = "ready" => call[r].served > 0
    /\ heapT' = Drop(Drop(heapT, CloneAddr(r)), CertAddr(r))
    /\ heapC' = Drop(Drop(heapC, CloneAddr(r)), CertAddr(r))
    /\ call' = [call EXCEPT ![r] = IdleCall]
    /\ UNCHANGED <<cachedTransports, lock, dialerCalls, stores, callerVars, registry,
                   mcSynced, sessions, pureVars>>

Init ==
    /\ InitCache /\ NoCallers /\ NoHdr /\ NoLoc
    /\ registry = FixedRegistry
    /\ mcSynced = FALSE
    /\ sessions = {}
    /\ call = [r \in Calls |-> IdleCall]

Next ==
    \/ InformerSync
    \/ \E id \in ClusterIDs : SessionConnect(id) \/ SessionDisconnect(id)
    \/ \E r \in Calls :
         \/ ProxyConnect(r)
         \/ CtxCancel(r)
         \/ WaitCheck(r)
         \/ PollSynced(r)
         \/ PollStopped(r)
         \/ ClusterLocation(r)
         \/ Serve(r)
         \/ Finish(r)

Spec == Init /\ [][Next]_vars

(***************************************************************************)
(* Properties of the dispatch pipeline.                                    *)
(***************************************************************************)
ErrNotReady == "ServiceUnavailable: cache for ManagedCluster is not ready"

\* the call r failed because the wait for the informer was given up
FailedNotReady(r) == call[r].pc = "failed" /\ call[r].err = ErrNotReady

\* the last request of the call r reached ServeHTTP of the proxy handler
Executed(r) == call[r].last.executed

\* C2: every request executed for a cluster whose record is tunnel-only is
\* handed a transport that exists and dials through the tunnel dial
\* function of the cluster's own id.
C2_TunnelOnlyUsesTunnelDialer ==
    \A r \in Calls :
        Executed(r) /\ call[r].useSocket =>
            /\ call[r].last.transport # NilPtr
            /\ call[r].last.transport \in DOMAIN heapT
            /\ heapT[call[r].last.transport].DialContext = Dialer(call[r].id)

\* a request of a tunnel-only cluster was executed with the transport built
\* from its certificate headers, in a call that also holds its cached clone
C2_Witness ==
    \E r \in Calls :
        /\ Executed(r) /\ call[r].useSocket
        /\ call[r].last.transport = CertAddr(r)
        /\ CloneAddr(r) \in DOMAIN heapT

\* C4 as stated: a call whose context was canceled while the informer had
\* not synced never gets to the location resolver.
C4_Original ==
    \A r \in Calls :
        call[r].canceledUnsynced => call[r].pc \in {"wait", "poll", "failed"}

\* C4 amended: a call that failed with NotReady had its context canceled,
\* never called ClusterLocation, holds no transport and executed nothing;
\* ClusterLocation is only called once the informer has synced, and until
\* then the transport cache is as NewExchanger left it.
C4_NotReadyTouchesNothing ==
    /\ \A r \in Calls :
          FailedNotReady(r) =>
              /\ call[r].ctxDone
              /\ ~call[r].resolverCalled
              /\ call[r].transport = NilPtr
              /\ CloneAddr(r) \notin DOMAIN heapT
              /\ call[r].served = 0
              /\ ~Executed(r)
    /\ \A r \in Calls :
          call[r].resolverCalled \/ call[r].pc \in {"resolve", "ready", "panicked"}
              => mcSynced
    /\ ~mcSynced =>
          /\ \A id \in ClusterIDs : cachedTransports[id] = NilPtr /\ dialerCalls[id] = 0
          /\ DOMAIN heapT = {}

\* a call for a tunnel-only cluster with a session failed with NotReady,
\* its wait given up while polling
C4_Witness ==
    \E r \in Calls :
        /\ FailedNotReady(r)
        /\ call[r].id \in TunnelIDs /\ HasSession(call[r].id)
        /\ call[r].canceledUnsynced

\* C5: a call that failed or panicked before it returned a handler served
\* no request, and a request for which the handler reported an error never
\* reached ServeHTTP.
C5_ErrorsStopBeforeProxy ==
    \A r \in Calls :
        /\ call[r].pc \in {"failed", "panicked"} => call[r].served = 0 /\ ~Executed(r)
        /\ call[r].last.error # "" => ~Executed(r)

\* the handler reported an error on a request of a call that had resolved
\* its location and holds a tunnel transport
C5_Witness ==
    \E r \in Calls :
        /\ call[r].served > 0
        /\ call[r].last.error # ""
        /\ ~Executed(r)
        /\ call[r].transport = CloneAddr(r)

\* the entry of id and the transport it points to are the same before and
\* after the step
EntryKept(id) ==
    LET t == cachedTransports[id] IN
    /\ cachedTransports'[id] = t
    /\ t \in DOMAIN heapT'
    /\ heapT'[t] = heapT[t]
    /\ heapT[t].TLSClientConfig \in DOMAIN heapC'
    /\ heapC'[heapT[t].TLSClientConfig] = heapC[heapT[t].TLSClientConfig]

\* C13: once a cache entry exists for an id no step replaces, changes or
\* removes it, whatever the step is (a resolution calling
\* getClonedTransport, a request with or without certificate headers, a
\* session opening or ending, the end of a call), so the set of cached ids
\* only grows.
C13_CacheEntryStable ==
    [][\A id \in ClusterIDs : cachedTransports[id] # NilPtr => EntryKept(id)]_vars

\* a request with certificate headers was executed for an id that has a
\* cache entry and whose session has ended since
C13_Witness ==
    \E r \in Calls :
        /\ Executed(r)
        /\ call[r].last.transport = CertAddr(r)
        /\ cachedTransports[call[r].id] # NilPtr
        /\ ~HasSession(call[r].id)

(***************************************************************************)
(* Properties of the lock of getClonedTransport.                           *)
(***************************************************************************)
\* C14: the mutex is held only for the map lookup and the map insert: no
\* caller is at the clone of the transport while it holds the lock.
C14_NoCloneUnderLock ==
    \A c \in Callers : caller[c].pc = "clone" => lock # c

(***************************************************************************)
(* Properties of the handler across the requests it serves.                *)
(***************************************************************************)
\* C15: what a request is executed with depends on that request only: the
\* transport built from certificate headers is used only for the request
\* that carried them, and the query of the location is the request's own.
C15_PerRequestState ==
    \A r \in Calls :
        Executed(r) =>
            /\ call[r].last.transport = CertAddr(r) => call[r].last.ownCert
            /\ call[r].rawQuery = call[r].last.query

(***************************************************************************)
(* Further properties of ClusterLocation.                                  *)
(***************************************************************************)
\* C16: a request path with nothing after its leading slashes (the empty
\* path, "/") is rejected with the BadRequest 'invalid request path' error
\* and no location is returned.
C16_EmptyPathRejected ==
    lx.pc = "done" /\ HasRecord(lx.mcls) /\ TrimLeftSlash(lx.requestPath) = <<>> =>
        /\ lx.out.status = "error"
        /\ lx.out.err = "BadRequest: invalid request path"
        /\ lx.out.location = NoLocation

\* C17: HasSession is asked only once the location is built: never when the
\* cluster is unknown or the short-path resolution fails, and never for a
\* record not flagged tunnel-only; a tunnel-only record without session and
\* with an empty API server URL fails a 'direct/...' request with
\* ServiceUnavailable.
C17_SessionAskedLast ==
    lx.pc = "done" =>
        /\ lx.out.askedSession =>
              /\ HasRecord(lx.mcls)
              /\ lx.mcls.items[1].UseSocket
              /\ ~ShortPathUnresolved
        /\ TunnelOnlyNoSession /\ ShortMode /\ lx.mcls.items[1].APIServerURL = <<>> =>
              /\ lx.out.status = "error"
              /\ lx.out.err = "ServiceUnavailable: no apiserver url"
              /\ ~lx.out.askedSession

\* a 'direct/...' request for a tunnel-only record without session and
\* without API server URL has failed
C17_Witness ==
    /\ TunnelOnlyNoSession
    /\ ShortMode
    /\ lx.mcls.items[1].APIServerURL = <<>>
    /\ lx.out.err = "ServiceUnavailable: no apiserver url"

(***************************************************************************)
(* Properties of getExtraFromHeaders.                                      *)
(***************************************************************************)
\* the header name n starts, whatever the case, with the prefix p
NameMatches(n, p) == HasPrefix(ToLower(n), ToLower(p))

\* the extra key of the header name n under the prefix p: the rest of the
\* name lower-cased, then percent-unescaped when it can be
KeyOf(n, p) ==
    LET rest == ToLower(From(n, Len(p))) IN
    IF EscapesOK(rest) THEN Decode(rest) ELSE rest

\* the values that the headers named names[j..] give to the key k under the
\* prefix p, in the order of names
RECURSIVE ValuesOfNames(_, _, _, _, _)
ValuesOfNames(h, p, names, j, k) ==
    IF j > Len(names) THEN <<>>
    ELSE (IF NameMatches(names[j], p) /\ KeyOf(names[j], p) = k THEN h[names[j]] ELSE <<>>)
            \o ValuesOfNames(h, p, names, j + 1, k)

\* the values of the key k: prefix by prefix, from the i-th on
RECURSIVE ValuesOfPrefixes(_, _, _, _, _)
ValuesOfPrefixes(h, prefixes, ord, i, k) ==
    IF i > Len(prefixes) THEN <<>>
    ELSE ValuesOfNames(h, prefixes[i], ord[i], 1, k)
            \o ValuesOfPrefixes(h, prefixes, ord, i + 1, k)

\* C18: the keys extracted are those of the headers whose name starts with
\* a configured prefix, each the lower-cased and then unescaped rest of the
\* name; the values of a key are the values of its headers, each header's
\* in their order, those found under an earlier prefix first; a header that
\* matches no prefix gives no key.
C18_ExtraKeysAndValues ==
    hx.pc = "served" =>
        LET extra == hx.out.extra
            h == hx.h
            prefixes == hx.prefixes
        IN  /\ DOMAIN extra =
                  {KeyOf(x[1], prefixes[x[2]]) :
                      x \in {y \in (DOMAIN h) \X (1..Len(prefixes)) :
                                NameMatches(y[1], prefixes[y[2]])}}
            /\ \A k \in DOMAIN extra :
                  \E ord \in RangeOrders(h, prefixes) :
                      extra[k] = ValuesOfPrefixes(h, prefixes, ord, 1, k)

\* X-Extra-Foo: a, b and X-Foo: c under the prefixes X-Extra-, X-: the key
\* foo has the values a, b of the first prefix before c of the second
C18_Witness ==
    /\ hx.pc = "served"
    /\ hx.prefixes = <<PrefixExtra, PrefixX>>
    /\ <<102, 111, 111>> \in DOMAIN hx.out.extra
    /\ hx.out.extra[<<102, 111, 111>>] = <<"a", "b", "c">>

(***************************************************************************)
(* Further properties of the dispatch pipeline.                            *)
(***************************************************************************)
\* C19: a request executed for a cluster whose record is not tunnel-only is
\* handed no transport, whatever its headers; never one that dials through
\* the tunnel of the cluster's id.
C19_NonTunnelDispatchedDirectly ==
    \A r \in Calls :
        Executed(r) /\ ~call[r].useSocket => call[r].last.transport = NilPtr

(***************************************************************************)
(* CacheFairSpec: CacheSpec with the scheduling the Go runtime gives.  A   *)
(* runnable goroutine is eventually run (weak fairness of the steps made   *)
(* with the lock held), and sync.Mutex hands the lock to a goroutine that  *)
(* keeps waiting for it (starvation mode), so a Lock that is possible      *)
(* again and again eventually succeeds (strong fairness).                  *)
(***************************************************************************)
CacheFairness ==
    \A c \in Callers :
        /\ SF_vars(Lock(c))
        /\ WF_vars(Lookup(c))
        /\ WF_vars(Create(c))
        /\ WF_vars(Clone(c))
        /\ WF_vars(Unlock(c))

CacheFairSpec == CacheSpec /\ CacheFairness

\* goroutine c is between e.lock.Lock() and the deferred Unlock
InsideLock(c) == caller[c].pc \in {"lookup", "create", "clone", "unlock"}

\* the lock is held exactly by the goroutine that is inside
LockFollowsCallers ==
    /\ \A c \in Callers : InsideLock(c) <=> lock = c
    /\ (\A c \in Callers : ~InsideLock(c)) => lock = NoHolder

\* C20: every call of getClonedTransport eventually gets the lock, returns a
\* transport and has released the lock; the lock is free whenever no caller
\* is inside.
C20_LockLiveness ==
    /\ []LockFollowsCallers
    /\ \A c \in Callers :
          (caller[c].pc = "lock") ~>
              (caller[c].pc = "done" /\ caller[c].ret = CloneAddr(c) /\ lock # c)

\* one goroutine waits for the lock while another holds it
C20_Witness ==
    \E a, b \in Callers :
        /\ a # b
        /\ caller[a].pc = "lock"
        /\ lock = b
        /\ InsideLock(b)

====
